---- MODULE Spec2Model ----
(***************************************************************************)
(* The session-bound shopping cart of the Zapateria application: the cart  *)
(* routes (routes/cart.ts), the userId middleware of the server and the    *)
(* shared JSON file the carts are persisted to.                            *)
(*                                                                         *)
(* JavaScript numbers are kept in halves: the integer h stands for the     *)
(* number h/2, so that the non-integer numbers 1.5 and 2.5 of the tests    *)
(* are values of the model (h = 3 and h = 5) and integrality is h % 2 = 0. *)
(***************************************************************************)
EXTENDS Integers, Sequences, FiniteSets, TLC

VARIABLES cookie, file, reqs, done, nreq, minted,
          rateLimitStore, now, limiter, limited,
          auditLogs, audited, naudited, sent

\* the state of the server and its clients
app == <<cookie, file, reqs, done, nreq, minted>>
\* the state of the middlewares of middleware/auth.ts, which server.ts does
\* not mount: the rate limiter and the audit logger
security == <<rateLimitStore, now, limiter, limited, auditLogs, audited, naudited, sent>>

vars == <<cookie, file, reqs, done, nreq, minted,
          rateLimitStore, now, limiter, limited,
          auditLogs, audited, naudited, sent>>

\* ------------------------------------------------------------------ bounds
NumSessions == 1
MaxRequests == 2
MaxInFlight == 2
\* the rate limiter: addresses, the time the clock reaches, requests of one
\* address
NumIps == 2
MaxTime == 3
MaxCalls == 3
\* the audit logger: requests audited, responses not yet sent, and the number
\* of responses that are sent in the order of their requests before responses
\* may overtake one another or end without res.send
MaxAudited == 1003
MaxPending == 2
InOrderUntil == 998
\* "Mantener solo últimos 1000 logs"
MaxLogs == 1000

Sessions == 1..NumSessions
\* userIds are opaque strings `user_<time>_<random>`; the k-th one minted for
\* the requests of client s is named s + NumSessions * (k - 1)
UserIds == 1..(NumSessions * (MaxRequests + 1))

\* ------------------------------------------------------- JavaScript values
N(n) == 2 * n
IsInteger(h) == h % 2 = 0

Undef == [t |-> "undefined", h |-> 0]
Null == [t |-> "null", h |-> 0]
Num(h) == [t |-> "number", h |-> h]
\* a non-empty numeric string such as "1" or "5"
Str(h) == [t |-> "string", h |-> h]

\* !v
Falsy(v) == v.t \in {"undefined", "null"} \/ (v.t = "number" /\ v.h = 0)
\* v == null
Nullish(v) == v.t \in {"undefined", "null"}
TypeofNumber(v) == v.t = "number"

\* ----------------------------------------------------------------- catalog
\* routes/products.ts: the ids of the in-memory catalog
products == 1..9
stock == <<12, 24, 8, 16, 10, 7, 15, 20, 11>>
price == <<199999, 149999, 179999, 159999, 189999, 209999, 229999, 139999, 169999>>
\* routes/products.ts: name and description of the products, each string a
\* sequence of its characters
name ==
    <<
    <<"R", "u", "n", "n", "e", "r", " ", "A", "z", "u", "l">>,
    <<"C", "l", "a", "s", "s", "i", "c", " ", "R", "o", "j", "o">>,
    <<"E", "c", "o", " ", "V", "e", "r", "d", "e">>,
    <<"U", "r", "b", "a", "n", " ", "N", "a", "r", "a", "n", "j", "a">>,
    <<"S", "p", "o", "r", "t", " ", "M", "o", "r", "a", "d", "o">>,
    <<"T", "r", "a", "i", "l", " ", "G", "r", "i", "s">>,
    <<"P", "r", "o", " ", "B", "a", "s", "k", "e", "t", "b", "a", "l", "l",
       " ", "N", "e", "g", "r", "o">>,
    <<"C", "a", "s", "u", "a", "l", " ", "B", "l", "a", "n", "c", "o">>,
    <<"S", "k", "a", "t", "e", " ", "A", "m", "a", "r", "i", "l", "l", "o">>
    >>
description ==
    <<
    <<"Z", "a", "p", "a", "t", "i", "l", "l", "a", " ", "l", "i", "g", "e",
       "r", "a", " ", "p", "a", "r", "a", " ", "c", "o", "r", "r", "e", "r",
       ",", " ", "m", "a", "l", "l", "a", " ", "t", "r", "a", "n", "s", "p",
       "i", "r", "a", "b", "l", "e", ".">>,
    <<"C", "l", "á", "s", "i", "c", "o", " ", "u", "r", "b", "a", "n", "o",
       " ", "p", "a", "r", "a", " ", "u", "s", "o", " ", "d", "i", "a", "r",
       "i", "o", ".">>,
    <<"M", "a", "t", "e", "r", "i", "a", "l", "e", "s", " ", "r", "e", "c",
       "i", "c", "l", "a", "d", "o", "s", ",", " ", "c", "ó", "m", "o", "d",
       "o", " ", "y", " ", "r", "e", "s", "i", "s", "t", "e", "n", "t", "e",
       ".">>,
    <<"E", "s", "t", "i", "l", "o", " ", "u", "r", "b", "a", "n", "o", " ",
       "c", "o", "n", " ", "s", "u", "e", "l", "a", " ", "d", "e", " ", "a",
       "l", "t", "a", " ", "t", "r", "a", "c", "c", "i", "ó", "n", ".">>,
    <<"P", "a", "r", "a", " ", "e", "n", "t", "r", "e", "n", "a", "m", "i",
       "e", "n", "t", "o", "s", " ", "d", "e", " ", "a", "l", "t", "o", " ",
       "r", "e", "n", "d", "i", "m", "i", "e", "n", "t", "o", ".">>,
    <<"I", "d", "e", "a", "l", " ", "p", "a", "r", "a", " ", "m", "o", "n",
       "t", "a", "ñ", "a", " ", "y", " ", "t", "e", "r", "r", "e", "n", "o",
       "s", " ", "i", "r", "r", "e", "g", "u", "l", "a", "r", "e", "s", ".">>,
    <<"D", "i", "s", "e", "ñ", "o", " ", "p", "r", "o", "f", "e", "s", "i",
       "o", "n", "a", "l", " ", "c", "o", "n", " ", "s", "o", "p", "o", "r",
       "t", "e", " ", "d", "e", " ", "t", "o", "b", "i", "l", "l", "o", " ",
       "y", " ", "a", "m", "o", "r", "t", "i", "g", "u", "a", "c", "i", "ó",
       "n", " ", "a", "v", "a", "n", "z", "a", "d", "a", ".">>,
    <<"E", "s", "t", "i", "l", "o", " ", "m", "i", "n", "i", "m", "a", "l",
       "i", "s", "t", "a", " ", "y", " ", "e", "l", "e", "g", "a", "n", "t",
       "e", ",", " ", "p", "e", "r", "f", "e", "c", "t", "o", " ", "p", "a",
       "r", "a", " ", "c", "u", "a", "l", "q", "u", "i", "e", "r", " ", "o",
       "c", "a", "s", "i", "ó", "n", ".">>,
    <<"S", "u", "e", "l", "a", " ", "r", "e", "f", "o", "r", "z", "a", "d",
       "a", " ", "y", " ", "d", "i", "s", "e", "ñ", "o", " ", "r", "e", "s",
       "i", "s", "t", "e", "n", "t", "e", ".">>
    >>

\* the letters String.prototype.toLowerCase changes in the strings handled
\* here, and what it changes them to
UpperCase ==
    <<"A", "B", "C", "D", "E", "F", "G", "H", "I", "J", "K", "L", "M", "N",
       "O", "P", "Q", "R", "S", "T", "U", "V", "W", "X", "Y", "Z", "Á", "É",
       "Í", "Ó", "Ú", "Ñ">>
LowerCase ==
    <<"a", "b", "c", "d", "e", "f", "g", "h", "i", "j", "k", "l", "m", "n",
       "o", "p", "q", "r", "s", "t", "u", "v", "w", "x", "y", "z", "á", "é",
       "í", "ó", "ú", "ñ">>

\* s.toLowerCase()
toLowerCase(s) ==
    [i \in 1..Len(s) |->
        IF \E k \in 1..Len(UpperCase) : UpperCase[k] = s[i]
        THEN LowerCase[CHOOSE k \in 1..Len(UpperCase) : UpperCase[k] = s[i]]
        ELSE s[i]]

\* s.includes(t)
includes(s, t) ==
    \E i \in 1..(Len(s) - Len(t) + 1) : SubSeq(s, i, i + Len(t) - 1) = t

\* the catalog in its order, as the sequence of the ids
productList == <<1, 2, 3, 4, 5, 6, 7, 8, 9>>

\* Number(s) of a string s: a number for a string of digits (0 for the empty
\* string), NaN for a word
RECURSIVE DigitsValue(_)
DigitsValue(s) ==
    IF s = <<>> THEN 0
    ELSE 10 * DigitsValue(SubSeq(s, 1, Len(s) - 1))
         + (CHOOSE d \in 0..9 : <<"0", "1", "2", "3", "4", "5", "6", "7", "8", "9">>[d + 1] = s[Len(s)])
NaN == [t |-> "NaN", h |-> 0]
NumberOfString(s) ==
    IF \A i \in 1..Len(s) : s[i] \in {"0", "1", "2", "3", "4", "5", "6", "7", "8", "9"}
    THEN Num(N(DigitsValue(s)))
    ELSE NaN

\* Number(v) of a query parameter: undefined when the parameter is not given,
\* else a string of digits
NumberOfParam(v) == IF v.t = "string" THEN Num(v.h) ELSE NaN

\* routes/cart.ts, POST /add: stockMap, a Record<number, number>
stockMap == <<12, 24, 8, 16, 10, 7, 15, 20, 11>>
\* routes/cart.ts, GET /total: prices, a Record<number, number>
prices == <<199999, 149999, 179999, 159999, 189999, 209999, 229999, 139999, 169999>>

\* a property key of stockMap / prices: the numbers 1..9
IsKey(h) == IsInteger(h) /\ (h \div 2) \in 1..9

\* ---------------------------------------------------------------- sessions
\* req.session as cookie-session keeps it in the client's cookie: userId 0
\* is "no userId", hasCart FALSE is "no cart property".
EmptySession == [userId |-> 0, hasCart |-> FALSE, cart |-> <<>>]

\* sess.cart || []
CartOrEmpty(sess) == IF sess.hasCart THEN sess.cart ELSE <<>>

\* mutant: the identifier is the time alone (`user_${Date.now()}`)
FreshUserIdOfTime(s, k) == s

\* `user_${Date.now()}_${Math.random().toString(36).substring(7)}`: the time
\* and the random suffix together are taken never to repeat
FreshUserId(s, k) == s + NumSessions * k

\* server.ts: "Generar userId si no existe"
Middleware(sess, fresh) ==
    IF sess.userId = 0 THEN [sess EXCEPT !.userId = fresh] ELSE sess

\* ------------------------------------------------------------ persistence
NoEntry == [has |-> FALSE, cart |-> <<>>]
EmptyFile == [u \in UserIds |-> NoEntry]

\* mutant: the property named "userId" is read (allCarts.userId || [])
LoadedCartOfLiteralKey(allCarts, userId) == <<>>

\* loadCartFromFile: allCarts[userId] || []; JSON.stringify and JSON.parse
\* give back an array of {productId, qty} with finite numbers as it was
LoadedCart(allCarts, userId) ==
    IF userId \in UserIds /\ allCarts[userId].has THEN allCarts[userId].cart ELSE <<>>

\* mutant: only the cart of the user is written ({[userId]: cart})
WithCartAlone(allCarts, userId, cart) ==
    [u \in UserIds |-> IF u = userId THEN [has |-> TRUE, cart |-> cart]
                       ELSE [has |-> FALSE, cart |-> <<>>]]

\* mutant: the cart is set on a copy and the file content written as read
WithCartOnCopy(allCarts, userId, cart) == allCarts

\* mutant: the object written holds the cart under every key it has
WithCartUnderEveryKey(allCarts, userId, cart) ==
    [u \in UserIds |-> IF u = userId \/ allCarts[u].has
                       THEN [has |-> TRUE, cart |-> cart] ELSE allCarts[u]]

\* saveCartToFile: allCarts[userId] = cart
WithCart(allCarts, userId, cart) ==
    [allCarts EXCEPT ![userId] = [has |-> TRUE, cart |-> cart]]

\* ----------------------------------------------------------- cart helpers
RECURSIVE FindIndex(_, _, _)
\* cart.findIndex(i => i.productId === productId), 0 when there is none
FindIndex(cart, productId, from) ==
    IF from > Len(cart) THEN 0
    ELSE IF cart[from].productId = productId THEN from
    ELSE FindIndex(cart, productId, from + 1)

\* mutant: the quantity already in the cart is not counted
CurrentQtyIgnored(cart, productId) == 0

\* existing ? existing.qty : 0
CurrentQty(cart, productId) ==
    LET idx == FindIndex(cart, productId, 1)
    IN IF idx > 0 THEN cart[idx].qty ELSE 0

\* mutant: the stock of the next product is read (an index off by one)
StockExceededOffByOne(newQty, productId) ==
    /\ IsInteger(productId)
    /\ (productId \div 2) + 1 \in 1..9
    /\ newQty > N(stockMap[(productId \div 2) + 1])

\* newQty > stockMap[productId]; a comparison with undefined is false
StockExceeded(newQty, productId) ==
    IsKey(productId) /\ newQty > N(stockMap[productId \div 2])

\* mutant: the quantity of an existing item is overwritten, not incremented
AddOrOverwrite(cart, productId, qty) ==
    LET idx == FindIndex(cart, productId, 1)
    IN IF idx > 0
       THEN [cart EXCEPT ![idx].qty = qty]
       ELSE Append(cart, [productId |-> productId, qty |-> qty])

\* mutant: a new item is put at the front of the cart (unshift)
AddAtFront(cart, productId, qty) ==
    LET idx == FindIndex(cart, productId, 1)
    IN IF idx > 0
       THEN [cart EXCEPT ![idx].qty = cart[idx].qty + qty]
       ELSE <<[productId |-> productId, qty |-> qty]>> \o cart

\* mutant: a new item is pushed whether or not the product is in the cart
AddAlwaysPush(cart, productId, qty) ==
    Append(cart, [productId |-> productId, qty |-> qty])

\* "Agregar o actualizar"
AddOrUpdate(cart, productId, qty) ==
    LET idx == FindIndex(cart, productId, 1)
    IN IF idx > 0
       THEN [cart EXCEPT ![idx].qty = cart[idx].qty + qty]
       ELSE Append(cart, [productId |-> productId, qty |-> qty])

\* mutant: one unit is taken from the item, which goes when none is left
RemoveOneUnit(cart, productId) ==
    LET idx == FindIndex(cart, productId, 1)
    IN IF idx > 0 /\ cart[idx].qty > N(1)
       THEN [cart EXCEPT ![idx].qty = cart[idx].qty - N(1)]
       ELSE SelectSeq(cart, LAMBDA i : i.productId # productId)

\* cart.filter(i => i.productId !== productId)
RemoveItem(cart, productId) ==
    SelectSeq(cart, LAMBDA i : i.productId # productId)

\* ---------------------------------------------------------------- requests
NoRes == [status |-> 0, error |-> "", cart |-> <<>>, disponible |-> 0,
          total |-> 0, itemCount |-> 0, list |-> <<>>]
Ok(cart) == [NoRes EXCEPT !.status = 200, !.cart = cart]
Bad(error, disponible) ==
    [NoRes EXCEPT !.status = 400, !.error = error, !.disponible = disponible]
\* res.json({total, itemCount, currency: "COP"})
Totals(total, itemCount) ==
    [NoRes EXCEPT !.status = 200, !.total = total, !.itemCount = itemCount]

NoReq == [id |-> 0, s |-> 0, op |-> "none", productId |-> Undef, qty |-> Undef,
          in |-> EmptySession, sess |-> EmptySession, pc |-> "done",
          data |-> EmptyFile, res |-> NoRes, raced |-> FALSE, failed |-> "",
          path |-> <<>>, min |-> Undef, max |-> Undef]

\* the request as it enters the route: `in` is the session of the cookie it
\* carries, `sess` that session after the userId middleware, `data` the
\* content of the file it last read; `raced` records that another request
\* that saves a cart was being handled while this one was, `failed` which
\* step of saveCartToFile failed for it ("read", "parse", "write" or none);
\* `path` is the path of a catalog request below /api/products, split at the
\* slashes, `min` and `max` are its query parameters
NewReq(s, op, productId, qty) ==
    [id |-> nreq + 1, s |-> s, op |-> op, productId |-> productId, qty |-> qty,
     in |-> cookie[s],
     sess |-> Middleware(cookie[s], FreshUserId(s, minted[s])),
     pc |-> "start", data |-> EmptyFile, res |-> NoRes, raced |-> FALSE,
     failed |-> "", path |-> <<>>, min |-> Undef, max |-> Undef]

\* a request may arrive while fewer than MaxInFlight are being handled
CanStart == nreq < MaxRequests /\ Cardinality(reqs) < MaxInFlight

\* clients are numbered in the order of their first request to the server
InOrder(s) == IF s = 1 THEN TRUE ELSE minted[s - 1] > 0

Started(s) ==
    /\ InOrder(s)
    /\ nreq' = nreq + 1
    /\ minted' = IF cookie[s].userId = 0
                 THEN [minted EXCEPT ![s] = minted[s] + 1] ELSE minted

\* res.json(...): cookie-session writes the cookie with the response headers
\* when the session differs from the one the request arrived with
Reply(r, sess, res) ==
    /\ cookie' = IF sess # r.in THEN [cookie EXCEPT ![r.s] = sess] ELSE cookie
    /\ done' = [r EXCEPT !.sess = sess, !.res = res, !.pc = "done"]

\* the requests being handled that save a cart
Saving == {q \in reqs : q.op \in {"add", "remove", "clear"}}

\* the handler of GET / reaches `await loadCartFromFile(userId)`
AwaitLoad(r) ==
    /\ reqs' = reqs \cup {[r EXCEPT !.pc = "load"]}
    /\ UNCHANGED <<cookie, done>>

\* the handler reaches `await saveCartToFile(sess.userId, sess.cart)`
\* `res` is what the handler sends once the file is written
AwaitSave(r, sess, res) ==
    /\ reqs' = (reqs \ Saving)
                  \cup {[q EXCEPT !.raced = TRUE] : q \in Saving}
                  \cup {[r EXCEPT !.sess = sess, !.res = res, !.pc = "saveRead",
                                  !.raced = (Saving # {})]}
    /\ UNCHANGED <<cookie, done>>

\* ------------------------------------------------------------------ inputs
Body(productId, qty) == [productId |-> productId, qty |-> qty]

\* bodies of POST /add: every kind of productId with qty 1, every kind of qty
\* with productId 1, and bodies that break several rules at once
AddInputs ==
    {Body(p, Num(N(1))) :
        p \in {Undef, Str(N(1)), Num(N(0)), Num(N(-1)), Num(N(1)), Num(3),
               Num(N(3)), Num(N(999))}}
    \cup {Body(Num(N(1)), q) :
        q \in {Undef, Null, Str(N(5)), Num(N(0)), Num(N(-5)), Num(5), Num(N(12))}}
    \cup {Body(Num(N(3)), Num(N(12))), Body(Num(N(999)), Num(N(0))),
          Body(Num(N(999)), Num(5)), Body(Num(N(0)), Num(N(0))),
          Body(Str(N(1)), Num(N(0)))}

\* the bodies that drive the cart through its states: accepted ones on two
\* products and one that fills the stock of a product
CartAddInputs ==
    {Body(Num(N(1)), Num(N(12))), Body(Num(N(1)), Num(N(1))),
     Body(Num(N(3)), Num(N(1)))}

\* the bodies of the runs on persistence: two products
StoreAddInputs == {Body(Num(N(1)), Num(N(2))), Body(Num(N(3)), Num(N(1)))}

\* the bodies of the runs on the totals: an integer and a non-integer qty, a
\* second product, and a productId that is no key of the price table
TotalAddInputs ==
    {Body(Num(N(1)), Num(N(2))), Body(Num(N(1)), Num(5)),
     Body(Num(N(3)), Num(N(1))), Body(Num(3), Num(N(1)))}

CartRemoveInputs == {Num(N(1))}

\* bodies of POST /remove
RemoveInputs == {Undef, Str(N(1)), Num(N(0)), Num(N(-1)), Num(N(1)), Num(3), Num(N(999))}

\* ----------------------------------------------------------------- actions
\* ------------------------------------------------------------ audit logger
\* mutant: the newest entry is dropped (auditLogs.pop())
PushedDroppingNewest(logs, log) ==
    LET pushed == Append(logs, log)
    IN IF Len(pushed) > MaxLogs THEN SubSeq(pushed, 1, MaxLogs) ELSE pushed

\* auditLogs.push(log); if (auditLogs.length > 1000) auditLogs.shift()
Pushed(logs, log) ==
    LET pushed == Append(logs, log)
    IN IF Len(pushed) > MaxLogs THEN Tail(pushed) ELSE pushed

\* what res.send is once the wrapper has run its first line
\* (res.send = originalSend)
SendAfterLog == "originalSend"

\* the middleware auditLogger: res.send is wrapped and the request goes on;
\* the request is named by its number
AuditLogger ==
    /\ naudited < MaxAudited
    /\ Cardinality(audited) < MaxPending
    /\ naudited' = naudited + 1
    /\ audited' = audited \cup {naudited + 1}
    /\ UNCHANGED <<rateLimitStore, now, limiter, limited, auditLogs, sent>>
    /\ UNCHANGED app

\* the responses not yet sent may be sent in any order
AnyOrder == Len(sent) >= InOrderUntil
Oldest(id) == \A other \in audited : id <= other

\* the handler calls res.send(data) or res.json(data) for request id: the
\* wrapper pushes the log entry and calls the original send, which for an
\* object calls res.json and through it res.send once more
Send(id, body) ==
    /\ id \in audited
    /\ AnyOrder \/ Oldest(id)
    /\ LET once == Pushed(auditLogs, id)
       IN auditLogs' = IF body = "object" /\ SendAfterLog = "wrapper"
                       THEN Pushed(once, id) ELSE once
    /\ audited' = audited \ {id}
    /\ sent' = Append(sent, id)
    /\ UNCHANGED <<rateLimitStore, now, limiter, limited, naudited>>
    /\ UNCHANGED app

\* the handler ends the response without res.send (res.end, a stream)
End(id) ==
    /\ id \in audited
    /\ AnyOrder
    /\ audited' = audited \ {id}
    /\ UNCHANGED <<rateLimitStore, now, limiter, limited, auditLogs, naudited, sent>>
    /\ UNCHANGED app

\* ------------------------------------------------------------ rate limiter
\* the addresses requests come from (req.ip || remoteAddress || 'unknown')
Ips == 1..NumIps

\* rateLimitStore = {}: no record for any address
NoRecord == [has |-> FALSE, count |-> 0, resetTime |-> 0]

\* the last answer of the limiter to an address: `out` is "next" (passed on)
\* or "429", `at` the time of the request, `before` the answer before it,
\* `calls` the number of requests of the address so far and `passes` the
\* number of them passed on since the window of the address started
NoAnswer == [out |-> "none", at |-> 0, before |-> "none", calls |-> 0, passes |-> 0]

\* rateLimitStore[ip], and the last answer to ip; both are kept for the
\* addresses that have made a request
RecordOf(store, ip) == IF ip \in DOMAIN store THEN store[ip] ELSE NoRecord
AnswerOf(answers, ip) == IF ip \in DOMAIN answers THEN answers[ip] ELSE NoAnswer

\* store[ip] = value
With(store, ip, value) ==
    [key \in DOMAIN store \cup {ip} |-> IF key = ip THEN value ELSE store[key]]

\* the middlewares before any request, with the limiter made as
\* rateLimiter(maxRequests, windowMs)
SecurityInit(maxRequests, windowMs) ==
    /\ rateLimitStore = <<>>
    /\ now = 0
    /\ limiter = [maxRequests |-> maxRequests, windowMs |-> windowMs]
    /\ limited = <<>>
    /\ auditLogs = <<>>
    /\ audited = {}
    /\ naudited = 0
    /\ sent = <<>>

\* RecordOf(rateLimitStore, ip) = {count: 1, resetTime: now + windowMs}
Created(at, windowMs) == [has |-> TRUE, count |-> 1, resetTime |-> at + windowMs]

\* mutant: the window restarts and the count goes on
RestartedKeepingCount(record, at, windowMs) ==
    [record EXCEPT !.count = record.count + 1, !.resetTime = at + windowMs]

\* record.count = 1; record.resetTime = now + windowMs
Restarted(record, at, windowMs) ==
    [record EXCEPT !.count = 1, !.resetTime = at + windowMs]

\* "Reset si el tiempo expiró": now > record.resetTime
Expired(record, at) == at > record.resetTime

\* the middleware rateLimiter(maxRequests, windowMs) returns, called for a
\* request of address ip at the time `now`
RateLimit(ip) ==
    LET record == RecordOf(rateLimitStore, ip)
        last == AnswerOf(limited, ip)
        answer(out, passes) ==
            With(limited, ip, [out |-> out, at |-> now, before |-> last.out,
                               calls |-> last.calls + 1, passes |-> passes])
    IN /\ last.calls < MaxCalls
       /\ IF ~record.has
          THEN /\ rateLimitStore' = With(rateLimitStore, ip,
                                        Created(now, limiter.windowMs))
               /\ limited' = answer("next", 1)
          ELSE IF Expired(record, now)
          THEN /\ rateLimitStore' = With(rateLimitStore, ip,
                                        Restarted(record, now, limiter.windowMs))
               /\ limited' = answer("next", 1)
          ELSE /\ rateLimitStore' = [rateLimitStore EXCEPT ![ip].count = record.count + 1]
               /\ limited' = IF record.count + 1 > limiter.maxRequests
                             THEN answer("429", last.passes)
                             ELSE answer("next", last.passes + 1)
       /\ UNCHANGED <<now, limiter, auditLogs, audited, naudited, sent>>
       /\ UNCHANGED app

\* Date.now() moves on
Tick ==
    /\ now < MaxTime
    /\ now' = now + 1
    /\ UNCHANGED <<rateLimitStore, limiter, limited, auditLogs, audited, naudited, sent>>
    /\ UNCHANGED app

Init ==
    /\ SecurityInit(100, 60000)
    /\ cookie = [s \in Sessions |-> EmptySession]
    /\ file = EmptyFile
    /\ reqs = {}
    /\ done = NoReq
    /\ nreq = 0
    /\ minted = [s \in Sessions |-> 0]

\* a request to any other route (the catalog, the static pages) on a session
\* with no userId: only the userId middleware touches the session
Visit(s) ==
    /\ UNCHANGED security
    /\ InOrder(s)
    /\ cookie[s].userId = 0
    /\ cookie' = [cookie EXCEPT ![s] = Middleware(cookie[s], FreshUserId(s, minted[s]))]
    /\ minted' = [minted EXCEPT ![s] = minted[s] + 1]
    /\ UNCHANGED <<file, reqs, done, nreq>>

\* mutant: an empty cart is loaded again (!sess.cart || !sess.cart.length)
NeedsLoadWhenEmpty(sess) == ~sess.hasCart \/ sess.cart = <<>>

\* mutant: the cart is loaded on every get
NeedsLoadAlways(sess) == TRUE

\* router.get("/"): if (!sess.cart); an empty array is a cart
NeedsLoad(sess) == ~sess.hasCart

\* router.get("/")
GetCart(s) ==
    /\ UNCHANGED security
    /\ CanStart
    /\ Started(s)
    /\ LET r == NewReq(s, "get", Undef, Undef)
       IN IF NeedsLoad(r.sess)
          THEN AwaitLoad(r)
          ELSE /\ Reply([r EXCEPT !.data = file], r.sess, Ok(CartOrEmpty(r.sess)))
               /\ UNCHANGED reqs
    /\ UNCHANGED file

\* router.get("/"): fs.readFile returns and loadCartFromFile's result is
\* attached to the session
LoadCart(r) ==
    /\ UNCHANGED security
    /\ r \in reqs
    /\ r.pc = "load"
    /\ LET sess == [r.sess EXCEPT !.hasCart = TRUE,
                                  !.cart = LoadedCart(file, r.sess.userId)]
       IN reqs' = (reqs \ {r})
                    \cup {[r EXCEPT !.sess = sess, !.res = Ok(CartOrEmpty(sess)),
                                    !.data = file, !.pc = "respond"]}
    /\ UNCHANGED <<cookie, file, done, nreq, minted>>

\* mutant: the items are counted, not their quantities
ItemCountOfItems(cart) == N(Len(cart))

RECURSIVE ItemCount(_)
\* cart.reduce((acc, i) => acc + i.qty, 0), in halves
ItemCount(cart) ==
    IF cart = <<>> THEN 0 ELSE Head(cart).qty + ItemCount(Tail(cart))

\* prices[item.productId] || 0
PriceOf(productId) == IF IsKey(productId) THEN prices[productId \div 2] ELSE 0

RECURSIVE CartTotal(_)
\* for (const item of cart) total += price * item.qty, in halves
CartTotal(cart) ==
    IF cart = <<>> THEN 0
    ELSE PriceOf(Head(cart).productId) * Head(cart).qty + CartTotal(Tail(cart))

\* router.get("/total"): `cart` is sess.cart || [] as the request arrived, not
\* loaded from the file; the handler awaits the import of the catalog module
\* and a fetch of the catalog, uses neither, and answers with the totals
GetTotal(s) ==
    /\ UNCHANGED security
    /\ CanStart
    /\ Started(s)
    /\ LET r == NewReq(s, "total", Undef, Undef)
           cart == CartOrEmpty(r.sess)
       IN reqs' = reqs \cup {[r EXCEPT !.res = Totals(CartTotal(cart), ItemCount(cart)),
                                      !.pc = "respond"]}
    /\ UNCHANGED <<cookie, file, done>>

\* the error handler's answer: res.status(err.status || 500).json({error})
ServerError == [NoRes EXCEPT !.status = 500, !.error = "interno"]

\* router.get("/total"): the fetch of http://localhost:3000/api/products is
\* rejected (the server listens on another PORT, nothing answers there) and
\* the async handler throws before res.json. Either the router passes the
\* rejection to the error handler, which answers 500, or the rejection is
\* unhandled and the request is never answered.
FetchFails(r) ==
    /\ UNCHANGED security
    /\ r \in reqs
    /\ r.op = "total"
    /\ r.pc = "respond"
    /\ \/ /\ Reply(r, r.sess, ServerError)
          /\ reqs' = reqs \ {r}
       \/ /\ reqs' = (reqs \ {r}) \cup {[r EXCEPT !.res = NoRes, !.pc = "hung"]}
          /\ UNCHANGED <<cookie, done>>
    /\ UNCHANGED <<file, nreq, minted>>

\* ----------------------------------------------------------- catalog routes
\* res.json(products) and res.json(filtered): the products named by their ids
Listed(list) == [NoRes EXCEPT !.status = 200, !.list = list]
\* res.status(status).json({error})
Refused(status, error) == [NoRes EXCEPT !.status = status, !.error = error]

\* the first route of the router, in the order of declaration, that matches
\* the path: "/", "/:id", "/search/:query", "/filter/price"; a parameter
\* matches one segment, which is not empty
Route(path) ==
    IF path = <<>> THEN "/"
    ELSE IF Len(path) = 1 THEN "/:id"
    ELSE IF Len(path) = 2 /\ path[1] = <<"s", "e", "a", "r", "c", "h">> THEN "/search/:query"
    ELSE IF path = <<<<"f", "i", "l", "t", "e", "r">>, <<"p", "r", "i", "c", "e">>>> THEN "/filter/price"
    ELSE "404"

\* router.get("/:id")
ById(param) ==
    LET id == NumberOfString(param)
    IN IF id.t = "NaN" \/ id.h <= 0 THEN Refused(400, "idInvalido")
       ELSE IF \A p \in products : N(p) # id.h THEN Refused(404, "noEncontrado")
       ELSE Listed(<<id.h \div 2>>)

\* router.get("/search/:query")
Search(param) ==
    LET query == toLowerCase(param)
    IN Listed(SelectSeq(productList,
                        LAMBDA p : \/ includes(toLowerCase(name[p]), query)
                                   \/ includes(toLowerCase(description[p]), query)))

\* router.get("/filter/price"): Number(req.query.min) || 0,
\* Number(req.query.max) || Infinity
MinPrice(min) ==
    LET n == NumberOfParam(min) IN IF n.t = "NaN" \/ n.h = 0 THEN Num(0) ELSE n
Infinity == [t |-> "Infinity", h |-> 0]
MaxPrice(max) ==
    LET n == NumberOfParam(max) IN IF n.t = "NaN" \/ n.h = 0 THEN Infinity ELSE n
Filter(min, max) ==
    LET minPrice == MinPrice(min)
        maxPrice == MaxPrice(max)
    IN Listed(SelectSeq(productList,
                        LAMBDA p : /\ N(price[p]) >= minPrice.h
                                   /\ (maxPrice.t = "Infinity" \/ N(price[p]) <= maxPrice.h)))

\* the answer of the products router to GET path?min=..&max=..
Dispatch(path, min, max) ==
    LET route == Route(path)
    IN IF route = "/" THEN Listed(productList)
       ELSE IF route = "/:id" THEN ById(path[1])
       ELSE IF route = "/search/:query" THEN Search(path[2])
       ELSE IF route = "/filter/price" THEN Filter(min, max)
       ELSE Refused(404, "rutaNoEncontrada")

\* a request to the products router: it passes the userId middleware and is
\* answered at once
GetCatalog(s, op, path, min, max) ==
    /\ UNCHANGED security
    /\ CanStart
    /\ Started(s)
    /\ LET r == [NewReq(s, op, Undef, Undef) EXCEPT !.path = path, !.min = min, !.max = max]
       IN Reply(r, r.sess, Dispatch(path, min, max))
    /\ UNCHANGED <<file, reqs>>

\* GET /api/products and GET /api/products/<id>
IdInputs == {<<"1">>, <<"9">>, <<"1", "0">>, <<"0">>, <<"a", "b", "c">>}
GetProducts(s) == GetCatalog(s, "products", <<>>, Undef, Undef)
GetProduct(s, id) == GetCatalog(s, "product", <<id>>, Undef, Undef)

\* GET /api/products/search/<term>: the path ends with the slash when the
\* term is empty, and the router takes no notice of a slash at the end
SearchTerms ==
    {<<>>,
     <<"r", "u", "n", "n", "e", "r">>,
     <<"R", "U", "N", "N", "E", "R">>,
     <<"R", "u", "n", "n", "e", "r">>,
     <<"p", "r", "o", "f", "e", "s", "i", "o", "n", "a", "l">>,
     <<"i", "n", "e", "x", "i", "s", "t", "e", "n", "t", "e">>,
     <<"u", "r", "b", "a", "n">>,
     <<"C", "L", "Á", "S", "I", "C", "O">>,
     <<"o">>,
     <<" ", "r", "u", "n", "n", "e", "r">>,
     <<"1", "0">>}
SearchPath(term) ==
    IF term = <<>> THEN <<<<"s", "e", "a", "r", "c", "h">>>> ELSE <<<<"s", "e", "a", "r", "c", "h">>, term>>
GetSearch(s, term) == GetCatalog(s, "search", SearchPath(term), Undef, Undef)

\* GET /api/products/filter/price?min=..&max=.., each parameter given as a
\* string of digits or not given
MinInputs == {Undef, Str(N(0)), Str(N(150000)), Str(N(199999)), Str(N(500000))}
MaxInputs == {Undef, Str(N(0)), Str(N(139999)), Str(N(200000)), Str(N(999999))}
GetFilter(s, min, max) ==
    GetCatalog(s, "filter", <<<<"f", "i", "l", "t", "e", "r">>, <<"p", "r", "i", "c", "e">>>>, min, max)

\* router.post("/add"): VALIDACION 1..4, in the order of the code
AddRejection(productId, qty) ==
    IF Falsy(productId) \/ Nullish(qty) THEN "requeridos"
    ELSE IF ~TypeofNumber(productId) \/ ~TypeofNumber(qty) THEN "numeros"
    ELSE IF qty.h <= 0 THEN "cantidad"
    ELSE IF productId.h < N(1) \/ productId.h > N(9) THEN "noExiste"
    ELSE ""

\* router.post("/add")
PostAdd(s, productId, qty) ==
    /\ UNCHANGED security
    /\ CanStart
    /\ Started(s)
    /\ LET r == NewReq(s, "add", productId, qty)
           rejection == AddRejection(productId, qty)
           \* sess.cart = sess.cart || []; sess.userId is set by the middleware
           sess == [r.sess EXCEPT !.hasCart = TRUE, !.cart = CartOrEmpty(r.sess)]
           newQty == CurrentQty(sess.cart, productId.h) + qty.h
       IN IF rejection # ""
          THEN /\ Reply(r, r.sess, Bad(rejection, 0))
               /\ UNCHANGED reqs
          ELSE IF StockExceeded(newQty, productId.h)
          THEN /\ Reply(r, sess, Bad("stock", N(stockMap[productId.h \div 2])))
               /\ UNCHANGED reqs
          ELSE LET cart == AddOrUpdate(sess.cart, productId.h, qty.h)
               IN AwaitSave(r, [sess EXCEPT !.cart = cart], Ok(cart))
    /\ UNCHANGED file

\* router.post("/remove"): VALIDACION 1..2
RemoveRejection(productId) ==
    IF Falsy(productId) THEN "requerido"
    ELSE IF ~TypeofNumber(productId) THEN "numero"
    ELSE ""

\* sess.cart = (sess.cart || []).filter(...)
Removed(sess, productId) ==
    [sess EXCEPT !.hasCart = TRUE, !.cart = RemoveItem(CartOrEmpty(sess), productId)]

\* router.post("/remove")
PostRemove(s, productId) ==
    /\ UNCHANGED security
    /\ CanStart
    /\ Started(s)
    /\ LET r == NewReq(s, "remove", productId, Undef)
           rejection == RemoveRejection(productId)
           sess == Removed(r.sess, productId.h)
       IN IF rejection # ""
          THEN /\ Reply(r, r.sess, Bad(rejection, 0))
               /\ UNCHANGED reqs
          ELSE IF sess.userId # 0
          THEN AwaitSave(r, sess, Ok(sess.cart))
          ELSE /\ Reply(r, sess, Ok(sess.cart))
               /\ UNCHANGED reqs
    /\ UNCHANGED file

\* mutant: the cart is created when missing and otherwise kept
\* (sess.cart = sess.cart || [])
ClearedWhenMissing(sess) == [sess EXCEPT !.hasCart = TRUE, !.cart = CartOrEmpty(sess)]

\* sess.cart = []
Cleared(sess) == [sess EXCEPT !.hasCart = TRUE, !.cart = <<>>]

\* router.post("/clear"): the response carries the literal []
PostClear(s) ==
    /\ UNCHANGED security
    /\ CanStart
    /\ Started(s)
    /\ LET r == NewReq(s, "clear", Undef, Undef)
           sess == Cleared(r.sess)
       IN IF sess.userId # 0
          THEN AwaitSave(r, sess, Ok(<<>>))
          ELSE /\ Reply(r, sess, Ok(<<>>))
               /\ UNCHANGED reqs
    /\ UNCHANGED file

\* saveCartToFile: fs.readFile returns the whole file
SaveRead(r) ==
    /\ UNCHANGED security
    /\ r \in reqs
    /\ r.pc = "saveRead"
    /\ reqs' = (reqs \ {r}) \cup {[r EXCEPT !.data = file, !.pc = "saveWrite"]}
    /\ UNCHANGED <<cookie, file, done, nreq, minted>>

\* saveCartToFile: fs.writeFile rewrites the whole file
SaveWrite(r) ==
    /\ UNCHANGED security
    /\ r \in reqs
    /\ r.pc = "saveWrite"
    /\ file' = WithCart(r.data, r.sess.userId, r.sess.cart)
    /\ reqs' = (reqs \ {r})
                  \cup {[r EXCEPT !.data = EmptyFile, !.pc = "respond"]}
    /\ UNCHANGED <<cookie, done, nreq, minted>>

\* saveCartToFile: fs.readFile fails (the file does not exist, cannot be
\* opened): .catch(() => "{}") takes the empty object for the content
SaveReadFails(r) ==
    /\ UNCHANGED security
    /\ r \in reqs
    /\ r.pc = "saveRead"
    /\ reqs' = (reqs \ {r})
                  \cup {[r EXCEPT !.data = EmptyFile, !.failed = "read",
                                  !.pc = "saveWrite"]}
    /\ UNCHANGED <<cookie, file, done, nreq, minted>>

\* saveCartToFile: JSON.parse throws on the content read; the catch logs the
\* error and nothing is written
SaveParseFails(r) ==
    /\ UNCHANGED security
    /\ r \in reqs
    /\ r.pc = "saveRead"
    /\ reqs' = (reqs \ {r}) \cup {[r EXCEPT !.failed = "parse", !.pc = "respond"]}
    /\ UNCHANGED <<cookie, file, done, nreq, minted>>

\* saveCartToFile: fs.writeFile fails; the catch logs the error
SaveWriteFails(r) ==
    /\ UNCHANGED security
    /\ r \in reqs
    /\ r.pc = "saveWrite"
    /\ reqs' = (reqs \ {r})
                  \cup {[r EXCEPT !.data = EmptyFile, !.failed = "write",
                                  !.pc = "respond"]}
    /\ UNCHANGED <<cookie, file, done, nreq, minted>>

\* console.error("Error saving cart:", error) was called for the request
Logged(r) == r.failed \in {"parse", "write"}

\* mutant: a failure of the save that was caught is sent to the client
AnswerOrError(res, failed) == IF failed = "" THEN res ELSE Bad("persistencia", 0)

\* what the handler sends after its await: saveCartToFile returns nothing and
\* the handler sends the answer it had
Answer(res, failed) == res

\* the handler resumes after its await and sends the response: res.json(cart)
\* of GET /, res.json({ok: true, cart}) of add, remove and clear
Respond(r) ==
    /\ UNCHANGED security
    /\ r \in reqs
    /\ r.pc = "respond"
    /\ Reply(r, r.sess, Answer(r.res, r.failed))
    /\ reqs' = reqs \ {r}
    /\ UNCHANGED <<file, nreq, minted>>

Next ==
    \/ \E s \in Sessions : Visit(s)
    \/ \E s \in Sessions : GetCart(s)
    \/ \E s \in Sessions : GetTotal(s)
    \/ \E s \in Sessions, body \in AddInputs : PostAdd(s, body.productId, body.qty)
    \/ \E s \in Sessions, productId \in RemoveInputs : PostRemove(s, productId)
    \/ \E s \in Sessions : PostClear(s)
    \/ \E r \in reqs : LoadCart(r)
    \/ \E r \in reqs : SaveRead(r)
    \/ \E r \in reqs : SaveWrite(r)
    \/ \E r \in reqs : Respond(r)
    \/ \E r \in reqs : FetchFails(r)
    \/ \E s \in Sessions : GetProducts(s)
    \/ \E s \in Sessions, id \in IdInputs : GetProduct(s, id)
    \/ \E s \in Sessions, term \in SearchTerms : GetSearch(s, term)
    \/ \E s \in Sessions, min \in MinInputs, max \in MaxInputs : GetFilter(s, min, max)

Spec == Init /\ [][Next]_vars

\* get, add, remove and clear only, on the bodies that change the cart
NextCart ==
    \/ \E s \in Sessions : Visit(s)
    \/ \E s \in Sessions : GetCart(s)
    \/ \E s \in Sessions, body \in CartAddInputs : PostAdd(s, body.productId, body.qty)
    \/ \E s \in Sessions, productId \in CartRemoveInputs : PostRemove(s, productId)
    \/ \E s \in Sessions : PostClear(s)
    \/ \E r \in reqs : LoadCart(r)
    \/ \E r \in reqs : SaveRead(r)
    \/ \E r \in reqs : SaveWrite(r)
    \/ \E r \in reqs : Respond(r)

SpecCart == Init /\ [][NextCart]_vars

\* the runs on persistence: every cart route, two products
NextStore ==
    \/ \E s \in Sessions : Visit(s)
    \/ \E s \in Sessions : GetCart(s)
    \/ \E s \in Sessions, body \in StoreAddInputs : PostAdd(s, body.productId, body.qty)
    \/ \E s \in Sessions, productId \in CartRemoveInputs : PostRemove(s, productId)
    \/ \E s \in Sessions : PostClear(s)
    \/ \E r \in reqs : LoadCart(r)
    \/ \E r \in reqs : SaveRead(r)
    \/ \E r \in reqs : SaveWrite(r)
    \/ \E r \in reqs : Respond(r)

SpecStore == Init /\ [][NextStore]_vars

\* the runs on the totals: carts are filled and their totals asked for
NextTotal ==
    \/ \E s \in Sessions : GetTotal(s)
    \/ \E s \in Sessions, body \in TotalAddInputs : PostAdd(s, body.productId, body.qty)
    \/ \E r \in reqs : SaveRead(r)
    \/ \E r \in reqs : SaveWrite(r)
    \/ \E r \in reqs : Respond(r)

SpecTotal == Init /\ [][NextTotal]_vars

\* the runs on concurrent saves: adds only, on clients without a userId, so
\* that two adds in flight together are those of two different users
NextRace ==
    \/ \E s \in Sessions, body \in StoreAddInputs : PostAdd(s, body.productId, body.qty)
    \/ \E r \in reqs : SaveRead(r)
    \/ \E r \in reqs : SaveWrite(r)
    \/ \E r \in reqs : Respond(r)

SpecRace == Init /\ [][NextRace]_vars

\* the runs on a file that an earlier run of the server left behind: data.json
\* holds the cart of a user of that run, whose userId is minted no more
EarlierUser == NumSessions * (MaxRequests + 1)
InitSeq ==
    /\ SecurityInit(100, 60000)
    /\ cookie = [s \in Sessions |-> EmptySession]
    /\ file = [EmptyFile EXCEPT ![EarlierUser] =
                  [has |-> TRUE, cart |-> <<[productId |-> N(2), qty |-> N(1)]>>]]
    /\ reqs = {}
    /\ done = NoReq
    /\ nreq = 0
    /\ minted = [s \in Sessions |-> 0]

NextSeq ==
    \/ \E s \in Sessions, body \in StoreAddInputs : PostAdd(s, body.productId, body.qty)
    \/ \E s \in Sessions, productId \in CartRemoveInputs : PostRemove(s, productId)
    \/ \E s \in Sessions : PostClear(s)
    \/ \E r \in reqs : SaveRead(r)
    \/ \E r \in reqs : SaveWrite(r)
    \/ \E r \in reqs : Respond(r)

SpecSeq == InitSeq /\ [][NextSeq]_vars

\* the runs of the rate limiter alone: rateLimiter(maxRequests, windowMs) is
\* made with some limit and window and is called as time goes by
InitLimit ==
    /\ \E maxRequests \in 0..2, windowMs \in 1..2 : SecurityInit(maxRequests, windowMs)
    /\ cookie = [s \in Sessions |-> EmptySession]
    /\ file = EmptyFile
    /\ reqs = {}
    /\ done = NoReq
    /\ nreq = 0
    /\ minted = [s \in Sessions |-> 0]

NextLimit ==
    \/ \E ip \in Ips : RateLimit(ip)
    \/ Tick

SpecLimit == InitLimit /\ [][NextLimit]_vars

\* the runs of the audit logger alone
NextAudit ==
    \/ AuditLogger
    \/ \E id \in audited, body \in {"string", "object"} : Send(id, body)
    \/ \E id \in audited : End(id)

SpecAudit == Init /\ [][NextAudit]_vars

\* the runs on the catalog: requests to the products router only
NextCatalog ==
    \/ \E s \in Sessions : Visit(s)
    \/ \E s \in Sessions : GetProducts(s)
    \/ \E s \in Sessions, id \in IdInputs : GetProduct(s, id)
    \/ \E s \in Sessions, term \in SearchTerms : GetSearch(s, term)
    \/ \E s \in Sessions, min \in MinInputs, max \in MaxInputs : GetFilter(s, min, max)

SpecCatalog == Init /\ [][NextCatalog]_vars

\* the runs on failures of the file: every step of saveCartToFile may fail
NextFail ==
    \/ \E s \in Sessions, body \in StoreAddInputs : PostAdd(s, body.productId, body.qty)
    \/ \E s \in Sessions, productId \in CartRemoveInputs : PostRemove(s, productId)
    \/ \E s \in Sessions : PostClear(s)
    \/ \E r \in reqs : SaveRead(r)
    \/ \E r \in reqs : SaveReadFails(r)
    \/ \E r \in reqs : SaveParseFails(r)
    \/ \E r \in reqs : SaveWrite(r)
    \/ \E r \in reqs : SaveWriteFails(r)
    \/ \E r \in reqs : Respond(r)

SpecFail == Init /\ [][NextFail]_vars

\* the runs of clients that arrive without a cookie: every request that has
\* no userId yet mints one
NextIso ==
    \/ \E s \in Sessions : GetCart(s)
    \/ \E s \in Sessions, body \in StoreAddInputs : PostAdd(s, body.productId, body.qty)
    \/ \E r \in reqs : LoadCart(r)
    \/ \E r \in reqs : SaveRead(r)
    \/ \E r \in reqs : SaveWrite(r)
    \/ \E r \in reqs : Respond(r)

SpecIso == Init /\ [][NextIso]_vars

\* the runs on what get returns: one request more than MaxRequests, each a
\* get or an add, so that a get can follow two requests that overlapped
InitDeep ==
    /\ SecurityInit(100, 60000)
    /\ cookie = [s \in Sessions |-> EmptySession]
    /\ file = EmptyFile
    /\ reqs = {}
    /\ done = NoReq
    /\ nreq = -1
    /\ minted = [s \in Sessions |-> 0]

NextDeep ==
    \/ \E s \in Sessions : Visit(s)
    \/ \E s \in Sessions : GetCart(s)
    \/ \E s \in Sessions : PostAdd(s, Num(N(1)), Num(N(2)))
    \/ \E r \in reqs : LoadCart(r)
    \/ \E r \in reqs : SaveRead(r)
    \/ \E r \in reqs : SaveWrite(r)
    \/ \E r \in reqs : Respond(r)

SpecDeep == InitDeep /\ [][NextDeep]_vars

\* ------------------------------------------------------ claims: vocabulary
\* the rejection reasons of the specification, by the message the route sends
Reason(error) ==
    CASE error \in {"requeridos", "numeros", "requerido", "numero"} -> "MissingOrWrongType"
      [] error = "cantidad" -> "InvalidQuantity"
      [] error = "noExiste" -> "UnknownProduct"
      [] error = "stock" -> "InsufficientStock"
      [] OTHER -> "none"

RECURSIVE SumQty(_, _)
\* the total quantity a cart holds for a productId
SumQty(cart, productId) ==
    IF cart = <<>> THEN 0
    ELSE (IF Head(cart).productId = productId THEN Head(cart).qty ELSE 0)
         + SumQty(Tail(cart), productId)

\* the number of items a cart holds for a productId
CountItems(cart, productId) ==
    Cardinality({i \in DOMAIN cart : cart[i].productId = productId})

\* a value that is an integer number
IsIntegerValue(v) == v.t = "number" /\ IsInteger(v.h)
\* a value that is the id of a catalog product
InCatalog(v) == IsIntegerValue(v) /\ (v.h \div 2) \in products
PositiveInteger(v) == IsIntegerValue(v) /\ v.h > 0

\* the cart of the session a request arrived with
Prior(r) == CartOrEmpty(r.in)

\* every cart a session holds: in the clients' cookies, in the requests being
\* handled and in the last request answered
SessionCarts ==
    {CartOrEmpty(cookie[s]) : s \in Sessions}
    \cup {CartOrEmpty(r.sess) : r \in reqs}
    \cup {CartOrEmpty(done.sess), done.res.cart}

PersistedCarts == {file[u].cart : u \in UserIds}

\* the add request last answered fulfils the precondition of a valid add
ValidAdd ==
    /\ done.op = "add"
    /\ InCatalog(done.productId)
    /\ PositiveInteger(done.qty)
    /\ SumQty(Prior(done), done.productId.h) + done.qty.h
          <= N(stock[done.productId.h \div 2])

\* the add request last answered asks for more than the stock leaves
OverStockAdd ==
    /\ done.op = "add"
    /\ InCatalog(done.productId)
    /\ PositiveInteger(done.qty)
    /\ SumQty(Prior(done), done.productId.h) + done.qty.h
          > N(stock[done.productId.h \div 2])

\* ------------------------------------------------------------------ claims
\* C1: an add of a catalog product with a positive integer qty that stays
\* within the stock succeeds, and the returned cart holds exactly one item for
\* the product, with the prior quantity (0 if absent) plus qty.
C1_ValidAddSucceeds ==
    ValidAdd =>
        /\ done.res.status = 200
        /\ CountItems(done.res.cart, done.productId.h) = 1
        /\ SumQty(done.res.cart, done.productId.h)
              = SumQty(Prior(done), done.productId.h) + done.qty.h

\* C1 witness: a valid add on a cart that already held the product
C1_Witness ==
    /\ ValidAdd
    /\ SumQty(Prior(done), done.productId.h) > 0
    /\ done.res.status = 200

\* C2: an add of a catalog product that would take the quantity in the cart
\* over the stock fails with InsufficientStock (400) and leaves the items of the
\* cart as they were.
C2_OverStockRejected ==
    OverStockAdd =>
        /\ done.res.status = 400
        /\ Reason(done.res.error) = "InsufficientStock"
        /\ CartOrEmpty(done.sess) = Prior(done)

\* C2 witness: with stock 12, add of 12 succeeded and the following add of 1
\* was rejected, the cart staying [{1, 12}]
C2_Witness ==
    /\ OverStockAdd
    /\ done.productId = Num(N(1))
    /\ done.qty = Num(N(1))
    /\ Prior(done) = <<[productId |-> N(1), qty |-> N(12)]>>
    /\ done.res.status = 400
    /\ cookie[done.s].cart = <<[productId |-> N(1), qty |-> N(12)]>>

\* C3: in every reachable state, for every product of the catalog, the total
\* quantity a session cart holds for it does not exceed the product's stock.
C3_StockCeiling ==
    \A cart \in SessionCarts : \A i \in DOMAIN cart :
        InCatalog(Num(cart[i].productId)) =>
            SumQty(cart, cart[i].productId) <= N(stock[cart[i].productId \div 2])

\* C3 witness: a cart filled up to the stock of product 1, an add to it refused
C3_Witness ==
    /\ \E s \in Sessions : SumQty(CartOrEmpty(cookie[s]), N(1)) = N(stock[1])
    /\ done.op = "add"
    /\ done.res.error = "stock"

\* C4: in every reachable state a session cart holds at most one item per
\* productId.
C4_OneItemPerProduct ==
    \A cart \in SessionCarts :
        \A i, j \in DOMAIN cart : cart[i].productId = cart[j].productId => i = j

\* C4 witness: a cart of two items, the second just added
C4_Witness ==
    /\ \E s \in Sessions : Len(CartOrEmpty(cookie[s])) = 2
    /\ done.op = "add"
    /\ done.res.status = 200

\* C5: every item of every session cart and persisted cart has the integer id
\* of a catalog product as productId and a positive integer as qty.
C5_ItemsWellFormed ==
    \A cart \in SessionCarts \cup PersistedCarts : \A i \in DOMAIN cart :
        /\ InCatalog(Num(cart[i].productId))
        /\ PositiveInteger(Num(cart[i].qty))

\* C6: a rejected add or remove leaves the session as the request found it,
\* whether it holds a cart included.
C6_RejectionMutatesNothing ==
    (done.op \in {"add", "remove"} /\ done.res.status = 400) =>
        done.sess = Middleware(done.in, done.sess.userId)

\* the rules of validateAdd, numbered as the specification numbers them: the
\* lowest-numbered rule a body violates on a cart, 0 when it violates none
Violates(k, productId, qty, cart) ==
    CASE k = 1 -> ~IsIntegerValue(productId) \/ ~IsIntegerValue(qty)
      [] k = 2 -> qty.t = "number" /\ qty.h <= 0
      [] k = 3 -> productId.t = "number" /\ ~InCatalog(productId)
      [] k = 4 -> /\ InCatalog(productId)
                  /\ qty.t = "number"
                  /\ SumQty(cart, productId.h) + qty.h > N(stock[productId.h \div 2])
      [] OTHER -> FALSE

ViolatedRules(productId, qty, cart) ==
    {k \in 1..4 : Violates(k, productId, qty, cart)}

LowestOf(S) == CHOOSE k \in S : \A j \in S : k <= j

RuleReason(k) ==
    CASE k = 1 -> "MissingOrWrongType"
      [] k = 2 -> "InvalidQuantity"
      [] k = 3 -> "UnknownProduct"
      [] k = 4 -> "InsufficientStock"
      [] OTHER -> "none"

\* C7: an add that violates several rules is rejected with the reason of the
\* lowest-numbered rule it violates.
C7_FirstFailureWins ==
    LET broken == ViolatedRules(done.productId, done.qty, Prior(done))
    IN (done.op = "add" /\ Cardinality(broken) >= 2) =>
          /\ done.res.status = 400
          /\ Reason(done.res.error) = RuleReason(LowestOf(broken))

\* C8: an add whose productId or qty is absent or not an integer is rejected
\* with MissingOrWrongType and leaves the cart unchanged.
C8_NonIntegerRejected ==
    (done.op = "add" /\ (~IsIntegerValue(done.productId) \/ ~IsIntegerValue(done.qty))) =>
        /\ done.res.status = 400
        /\ Reason(done.res.error) = "MissingOrWrongType"
        /\ CartOrEmpty(done.sess) = Prior(done)

\* C9: an add of an integer productId that is no catalog id, with a positive
\* integer qty, fails with UnknownProduct.
C9_UnknownProduct ==
    (/\ done.op = "add"
     /\ IsIntegerValue(done.productId)
     /\ ~InCatalog(done.productId)
     /\ PositiveInteger(done.qty)) =>
        /\ done.res.status = 400
        /\ Reason(done.res.error) = "UnknownProduct"

\* C10: an add rejected with InsufficientStock reports as available the stock
\* of the product minus the quantity of it in the cart.
C10_AvailableReported ==
    (done.op = "add" /\ done.res.status = 400 /\ Reason(done.res.error) = "InsufficientStock") =>
        done.res.disponible
            = N(stock[done.productId.h \div 2]) - SumQty(Prior(done), done.productId.h)

RECURSIVE Without(_, _)
Without(cart, productId) ==
    IF cart = <<>> THEN <<>>
    ELSE IF Head(cart).productId = productId THEN Without(Tail(cart), productId)
    ELSE <<Head(cart)>> \o Without(Tail(cart), productId)

\* C12: remove(productId) succeeds and returns the cart without the item for
\* productId, the other items in their original relative order; on an empty
\* cart or a cart with no item for productId that is the cart unchanged.
C12_RemoveFilters ==
    (done.op = "remove" /\ IsIntegerValue(done.productId)) =>
        /\ done.res.status = 200
        /\ done.res.cart = Without(Prior(done), done.productId.h)
        /\ CountItems(Prior(done), done.productId.h) = 0 => done.res.cart = Prior(done)

\* C13: remove accepts every request whose productId is a present integer,
\* whatever its value, and rejects with MissingOrWrongType every request whose
\* productId is absent or not an integer.
C13_RemoveValidation ==
    done.op = "remove" =>
        IF IsIntegerValue(done.productId)
        THEN done.res.status = 200
        ELSE done.res.status = 400 /\ Reason(done.res.error) = "MissingOrWrongType"

\* the request last answered left no request being handled and was handled
\* with no other saving request beside it
Undisturbed == reqs = {} /\ ~done.raced

C15_ClearEmpties ==
    /\ done.op = "clear" =>
          /\ done.res.status = 200
          /\ done.res.cart = <<>>
          /\ done.sess.hasCart /\ done.sess.cart = <<>>
          /\ ~NeedsLoad(done.sess)
    /\ (done.op = "get" /\ done.in.hasCart /\ done.in.cart = <<>>) =>
          done.res.status = 200 /\ done.res.cart = <<>>

\* C15 witness: a clear of a cart that held an item
C15_Witness ==
    /\ done.op = "clear"
    /\ Prior(done) # <<>>
    /\ cookie[done.s].hasCart /\ cookie[done.s].cart = <<>>
\* the catalog price of a productId, 0 when it is not in the catalog
CatalogPrice(productId) ==
    IF InCatalog(Num(productId)) THEN price[productId \div 2] ELSE 0

RECURSIVE SumOver(_, _, _)
\* the sum of Term(item) over the first n items of a cart
SumOver(Term(_), cart, n) ==
    IF n = 0 THEN 0 ELSE SumOver(Term, cart, n - 1) + Term(cart[n])

LineAmount(item) == CatalogPrice(item.productId) * item.qty
LineQty(item) == item.qty

C17_GetReturnsPersisted ==
    done.op = "get" => done.res.cart = LoadedCart(done.data, done.sess.userId)

\* the get last answered returned the cart its session held or, the session
\* holding none, the cart of the file it read; the session it left holds the
\* returned cart, so that the next get on it returns the same
GetAnswer ==
    done.op = "get" =>
        /\ done.res.status = 200
        /\ done.res.cart = IF done.in.hasCart THEN done.in.cart
                           ELSE LoadedCart(done.data, done.sess.userId)
        /\ ~NeedsLoad(done.sess)
        /\ CartOrEmpty(done.sess) = done.res.cart

\* a step that changes the file is the write of an add, a remove or a clear
WritersOnly ==
    file' # file =>
        \E r \in reqs : r.op \in {"add", "remove", "clear"} /\ r.pc = "saveWrite"
                           /\ r \notin reqs'

\* C17, amended: get returns the cart the session holds and, when the session
\* holds none, the cart persisted for its userId (the empty sequence when none
\* is); it never changes the persisted store, and two consecutive gets on the
\* same session return the same cart.
C17_GetCachedOrPersisted == []GetAnswer /\ [][WritersOnly]_vars

\* C17 witness: a get on a session with no cart returned the cart persisted
\* for its userId
C17_Witness ==
    /\ done.op = "get"
    /\ ~done.in.hasCart
    /\ done.res.cart # <<>>
    /\ done.res.cart = LoadedCart(done.data, done.sess.userId)

\* C18: once a session holds a cart (an empty one included), a get on it
\* returns that cart and leaves the session as it is, without waiting for the
\* file to be read, whatever the file holds for the userId.
C18_CachedCartWins ==
    /\ \A r \in reqs : r.op = "get" => ~r.in.hasCart
    /\ (done.op = "get" /\ done.in.hasCart) =>
          /\ done.res.status = 200
          /\ done.res.cart = done.in.cart
          /\ done.sess = done.in

\* C18 witness: a get returned the cart of its session while the file held
\* another cart for the userId
C18_Witness ==
    /\ done.op = "get"
    /\ done.in.hasCart
    /\ done.res.cart = done.in.cart
    /\ done.data[done.sess.userId].has
    /\ done.data[done.sess.userId].cart # done.in.cart

\* the request last answered is an add, a remove or a clear that succeeded
Mutated == done.op \in {"add", "remove", "clear"} /\ done.res.status = 200

\* C19: round trip. The session a successful add leaves is one on which get
\* answers from the session, and its cart holds the addition; and, no other
\* request being in flight, a session of the same userId that holds no cart
\* loads with get exactly the cart the session held after its last mutation.
C19_RoundTrip ==
    /\ (done.op = "add" /\ done.res.status = 200) =>
          /\ ~NeedsLoad(done.sess)
          /\ SumQty(CartOrEmpty(done.sess), done.productId.h)
                = SumQty(Prior(done), done.productId.h) + done.qty.h
    /\ (Mutated /\ Undisturbed) =>
          LET fresh == [EmptySession EXCEPT !.userId = done.sess.userId]
          IN /\ NeedsLoad(fresh)
             /\ LoadedCart(file, fresh.userId) = done.sess.cart

\* C19 witness: a second product was added and the file gives back both items
C19_Witness ==
    /\ done.op = "add"
    /\ done.res.status = 200
    /\ Undisturbed
    /\ Len(done.sess.cart) = 2
    /\ LoadedCart(file, done.sess.userId) = done.sess.cart

\* a step that changes the file replaces it by what the writer had read, with
\* the writer's cart as the entry of its userId
WholeFile ==
    file' # file =>
        \E r \in reqs :
            /\ r.pc = "saveWrite"
            /\ file' = [u \in UserIds |->
                          IF u = r.sess.userId THEN [has |-> TRUE, cart |-> r.sess.cart]
                          ELSE r.data[u]]

\* after a mutation nothing overlapped, the entry of the userId is the cart
\* returned to the client
EntryIsReturnedCart ==
    (Mutated /\ Undisturbed) =>
        file[done.sess.userId] = [has |-> TRUE, cart |-> done.res.cart]

\* C20: after every add, remove or clear that succeeded with no concurrent
\* writer, the persisted entry of the session's userId equals the cart
\* returned to the client, and the store is rewritten as a whole.
C20_PersistedIsReturned == []EntryIsReturnedCart /\ [][WholeFile]_vars

\* C20 witness: a remove emptied a cart and the entry of the user is []
C20_Witness ==
    /\ done.op = "remove"
    /\ Mutated
    /\ Undisturbed
    /\ Prior(done) # <<>>
    /\ done.res.cart = <<>>
    /\ file[done.sess.userId] = [has |-> TRUE, cart |-> <<>>]

\* the requests that enter their route in this step, as their handler left
\* them at its first await or at its answer
Arrived ==
    IF nreq' = nreq THEN {}
    ELSE {r \in reqs' \cup {done'} : r.id = nreq'}

\* a session holds a cart only if it has a userId
NoCartWithoutUser ==
    /\ \A s \in Sessions : cookie[s].hasCart => cookie[s].userId # 0
    /\ \A r \in reqs : r.sess.hasCart => r.sess.userId # 0

\* the userId of a client's session, once assigned, stays
UserIdKept ==
    \A s \in Sessions : cookie[s].userId # 0 => cookie'[s].userId = cookie[s].userId

\* a request that gives a cart to a session that had none starts from the cart
\* persisted for the userId: every persisted item the request does not
\* target is in the cart of the session
CartFirstLoaded ==
    \A r \in Arrived :
        (~r.in.hasCart /\ r.sess.hasCart /\ r.op # "clear") =>
            LET loaded == LoadedCart(file, r.sess.userId)
            IN \A i \in DOMAIN loaded :
                  loaded[i].productId # r.productId.h =>
                      \E j \in DOMAIN r.sess.cart : r.sess.cart[j] = loaded[i]

\* C21: a session moves only along Unbound -> Bound -> Hydrated: it never
\* holds a cart while it has no userId, its cart is first established from the
\* persisted cart of its userId, and its userId, once assigned, never changes.
C21_SessionLifecycle == []NoCartWithoutUser /\ [][UserIdKept /\ CartFirstLoaded]_vars

\* an add that reached the save is answered with success and its cart
SavedIsSuccess ==
    /\ \A r \in reqs : r.op = "add" => r.res = Ok(r.sess.cart)
    /\ (done.op = "add" /\ done.res.status = 200) => done.res = Ok(done.sess.cart)

\* request r writes the file in this step
Wrote(r) ==
    /\ r \in reqs
    /\ r.pc = "saveWrite"
    /\ \E q \in reqs' : q.id = r.id /\ q.pc = "respond" /\ q.failed = r.failed

\* the write of a request puts back, for every other user, the entry the
\* request had read, whatever the file holds for that user by now
StaleEntriesPutBack ==
    \A r \in reqs :
        Wrote(r) =>
            \A u \in UserIds \ {r.sess.userId} : file'[u] = r.data[u]

\* C22: two concurrent adds of different users race on the shared file: the
\* last writer writes the whole file as it had read it, so that an update of
\* the other user made in between is discarded, and both adds return success.
C22_LastWriterWins == []SavedIsSuccess /\ [][StaleEntriesPutBack]_vars

\* C22 witness: all requests are answered, the add last answered returned its
\* cart with success, the file holds no cart for its user and holds the cart
\* of another user, whose add wrote last
C22_Witness ==
    /\ reqs = {}
    /\ done.op = "add"
    /\ done.res.status = 200
    /\ done.res.cart # <<>>
    /\ ~file[done.sess.userId].has
    /\ \E u \in UserIds \ {done.sess.userId} : file[u].has /\ file[u].cart # <<>>

Answered(r) ==
    /\ r \in reqs
    /\ r.pc = "respond"
    /\ \A q \in reqs' : q.id # r.id

\* the answer of a successful add(productId, qty) leaves the client's session
\* with qty more of the product than it had, where that stays within stock
AddCounts ==
    \A r \in reqs :
        (/\ Answered(r)
         /\ r.op = "add"
         /\ r.res.status = 200
         /\ SumQty(cookie[r.s].cart, r.productId.h) + r.qty.h
              <= N(stock[r.productId.h \div 2]))
        => SumQty(cookie'[r.s].cart, r.productId.h)
             = SumQty(cookie[r.s].cart, r.productId.h) + r.qty.h

\* C24: add is not idempotent: each of two identical add(productId, qty) of a
\* session within stock increases the item's qty by qty, 2 x qty in total,
\* also when the two are in flight together.
C24_AddNotIdempotent == [][AddCounts]_vars

\* the requests handled or last answered
Handled == reqs \cup (IF done.op = "none" THEN {} ELSE {done})

\* resolve: a request keeps the userId its cookie holds, and a userId minted
\* for a request is that of no other client and of no other minting request
ResolveUnique ==
    /\ \A r \in Handled :
          /\ r.sess.userId # 0
          /\ r.in.userId # 0 => r.sess.userId = r.in.userId
    /\ \A r, q \in Handled :
          (r.id # q.id /\ r.sess.userId = q.sess.userId) =>
              /\ r.s = q.s
              /\ r.in.userId # 0 \/ q.in.userId # 0
    /\ \A s1, s2 \in Sessions :
          (s1 # s2 /\ cookie[s1].userId # 0) => cookie[s1].userId # cookie[s2].userId
    /\ \A r \in Handled : \A s \in Sessions \ {r.s} : cookie[s].userId # r.sess.userId

\* the cart a get loads is the entry of the request's own userId
ReadsOwn ==
    \A r \in reqs :
        r.pc = "load" =>
            \A q \in reqs' :
                (q.id = r.id /\ q.pc = "respond") =>
                    /\ q.sess.userId = r.sess.userId
                    /\ q.res.cart = IF file[r.sess.userId].has
                                    THEN file[r.sess.userId].cart ELSE <<>>

\* an entry of the file changes only in the write of a request of its userId
OwnerWrites ==
    \A u \in UserIds :
        file'[u] # file[u] => \E r \in reqs : Wrote(r) /\ r.sess.userId = u

\* the write of a request stores the request's cart under the request's
\* userId, and under every other userId an entry read from the file before
StoresOwn ==
    \A r \in reqs :
        Wrote(r) =>
            /\ file'[r.sess.userId] = [has |-> TRUE, cart |-> r.sess.cart]
            /\ \A u \in UserIds \ {r.sess.userId} : file'[u] \in {file[u], r.data[u]}

TotalReadsOnly ==
    \A r \in Handled :
        r.op = "total" =>
            /\ r.sess.hasCart = r.in.hasCart
            /\ r.sess.cart = r.in.cart
            /\ r.data = EmptyFile

\* a total is answered 200 with the totals of the session's cart
TotalAnswers ==
    \A r \in Handled :
        r.op = "total" =>
            /\ r.pc \in {"respond", "done"}
            /\ r.res.status = 200
            /\ r.res = Totals(CartTotal(CartOrEmpty(r.in)), ItemCount(CartOrEmpty(r.in)))

\* no step of a total changes the file
TotalKeepsFile ==
    file' # file => \E r \in reqs : r.op # "total" /\ Wrote(r)

\* C26: total is a pure read that always answers: GET /api/cart/total leaves
\* the session cart and the persisted store unchanged and always ends with a
\* 200 response carrying the totals; it has no failure outcome.
C26_TotalAlwaysAnswers == [](TotalReadsOnly /\ TotalAnswers) /\ [][TotalKeepsFile]_vars

\* the letters a and b are the same but for their case
SameLetter(a, b) ==
    \/ a = b
    \/ \E k \in 1..Len(UpperCase) : {a, b} = {UpperCase[k], LowerCase[k]}

\* text contains term at some position, compared without regard to case
ContainsIgnoringCase(text, term) ==
    \E at \in 0..(Len(text) - Len(term)) :
        \A i \in 1..Len(term) : SameLetter(text[at + i], term[i])

\* the products whose name or description contains the term
Matches(term) ==
    {p \in products : \/ ContainsIgnoringCase(name[p], term)
                      \/ ContainsIgnoringCase(description[p], term)}

\* the sequence holds exactly the products of the set, in catalog order
ListsExactly(list, set) ==
    /\ {list[i] : i \in DOMAIN list} = set
    /\ \A i, j \in DOMAIN list : i < j => list[i] < list[j]

\* the term of the search last answered
SearchedTerm == IF Len(done.path) = 2 THEN done.path[2] ELSE <<>>

\* the search of a non-empty term returns the products that match it
SearchMatches ==
    (done.op = "search" /\ SearchedTerm # <<>>) =>
        /\ done.res.status = 200
        /\ ListsExactly(done.res.list, Matches(SearchedTerm))

\* the answers to two terms that differ only in case are the same
SearchIgnoresCase ==
    \A t1, t2 \in SearchTerms :
        toLowerCase(t1) = toLowerCase(t2) =>
            Dispatch(SearchPath(t1), Undef, Undef) = Dispatch(SearchPath(t2), Undef, Undef)

\* C27: search(term) returns exactly the products whose name or description
\* contains term compared case-insensitively, in catalog order; the empty
\* term returns all products; terms that differ only in case return the same.
C27_Search ==
    done.op = "search" =>
        /\ done.res.status = 200
        /\ ListsExactly(done.res.list, Matches(SearchedTerm))
        /\ SearchedTerm = <<>> => done.res.list = productList
        /\ SearchIgnoresCase

\* a bound given as a string of digits is that number
Given(v) == v.t = "string"

\* the products whose price lies between the bounds given, both included; a
\* min not given is 0, a max not given is no bound
InRange(min, max) ==
    {p \in products :
        /\ N(price[p]) >= (IF Given(min) THEN min.h ELSE 0)
        /\ Given(max) => N(price[p]) <= max.h}

\* C28: filterByPrice(min, max) returns exactly the products with
\* min <= price <= max, both bounds inclusive, for all non-negative integer
\* bounds, max = 0 included; an omitted min is 0, an omitted max no bound.
C28_FilterByPrice ==
    done.op = "filter" =>
        /\ done.res.status = 200
        /\ ListsExactly(done.res.list, InRange(done.min, done.max))

\* the cart holds the item, with at least its quantity
Holds(cart, item) ==
    \E j \in DOMAIN cart : cart[j].productId = item.productId /\ cart[j].qty >= item.qty

\* an add accepted for a session that has a userId and no cart yet, while the
\* file holds items for the userId, counts the persisted quantity of the
\* product and keeps every persisted item in the session's cart
AddKeepsPersisted ==
    \A r \in Arrived :
        LET persisted == LoadedCart(file, r.in.userId)
        IN (/\ r.op = "add"
            /\ r.res.status = 200
            /\ r.in.userId # 0
            /\ ~r.in.hasCart
            /\ persisted # <<>>)
           => /\ SumQty(r.sess.cart, r.productId.h)
                   = SumQty(persisted, r.productId.h) + r.qty.h
              /\ \A i \in DOMAIN persisted : Holds(r.sess.cart, persisted[i])

\* the write of such an add leaves every item persisted for its userId in
\* the file
WriteKeepsPersisted ==
    \A r \in reqs :
        (Wrote(r) /\ r.op = "add" /\ r.in.userId # 0 /\ ~r.in.hasCart) =>
            LET persisted == LoadedCart(file, r.in.userId)
            IN \A i \in DOMAIN persisted : Holds(file'[r.in.userId].cart, persisted[i])

\* C29: add never discards persisted items: an add that succeeds on a session
\* with a userId and no cart loaded, while the store holds a non-empty cart
\* for the userId, checks the stock against the persisted quantity, and the
\* session cart and the persisted cart still hold every persisted item.
C29_AddKeepsPersisted == [][AddKeepsPersisted /\ WriteKeepsPersisted]_vars

\* the cart GET / returns for a session when the file is allCarts
CartOfGet(sess, allCarts) ==
    IF NeedsLoad(sess) THEN LoadedCart(allCarts, sess.userId) ELSE sess.cart

\* the totals of a total are those of the cart a get arriving with the same
\* cookie at the same time returns
TotalOfGet ==
    \A r \in Arrived :
        r.op = "total" =>
            LET cart == CartOfGet(r.sess, file)
            IN /\ r.res.status = 200
               /\ r.res.total = CartTotal(cart)
               /\ r.res.itemCount = ItemCount(cart)

\* C30: total and get agree on every session: at any point of a session's
\* life, also before its first get, the total and itemCount that total
\* returns are those of the cart that get returns for the session.
C30_TotalAgreesWithGet == [][TotalOfGet]_vars

\* the write of a mutation handled with no other mutation in flight leaves
\* the entry of every other user as the file holds it
OthersKept ==
    \A r \in reqs :
        (Wrote(r) /\ ~r.raced) =>
            /\ file'[r.sess.userId] = [has |-> TRUE, cart |-> r.sess.cart]
            /\ \A u \in UserIds \ {r.sess.userId} : file'[u] = file[u]

\* the file changes in the write of a mutation only
WritesOnly == file' # file => \E r \in reqs : Wrote(r)

Called(ip) == AnswerOf(limited', ip).calls # AnswerOf(limited, ip).calls

\* in the window of every address at most maxRequests requests were passed on
PassesBounded == \A ip \in Ips : AnswerOf(limited, ip).passes <= limiter.maxRequests

\* once maxRequests requests of the window were passed on, a request that
\* arrives no later than the reset time is answered 429
FurtherRejected ==
    \A ip \in Ips :
        (/\ Called(ip)
         /\ RecordOf(rateLimitStore, ip).has
         /\ now <= RecordOf(rateLimitStore, ip).resetTime
         /\ AnswerOf(limited, ip).passes >= limiter.maxRequests)
        => /\ AnswerOf(limited', ip).out = "429"
           /\ AnswerOf(limited', ip).passes = AnswerOf(limited, ip).passes

\* the request of an address leaves the records of the other addresses alone
OtherIpsKept ==
    \A ip \in Ips :
        Called(ip) => \A other \in Ips \ {ip} :
                         /\ RecordOf(rateLimitStore', other) = RecordOf(rateLimitStore, other)
                         /\ AnswerOf(limited', other) = AnswerOf(limited, other)

\* C32: rateLimiter(maxRequests, windowMs): for every IP and every window at
\* most maxRequests requests are passed on to the next handler; every further
\* request arriving before the reset time of the window is answered 429 and
\* not passed on, for any interleaving of the requests of different IPs.
C32_AtMostMaxRequests == []PassesBounded /\ [][FurtherRejected /\ OtherIpsKept]_vars

\* a request that arrives after the reset time of the window of its address
\* is passed on, the count of the address is 1 and its window ends windowMs
\* after the request
ResetAfterWindow ==
    \A ip \in Ips :
        (/\ Called(ip)
         /\ RecordOf(rateLimitStore, ip).has
         /\ now > RecordOf(rateLimitStore, ip).resetTime)
        => /\ AnswerOf(limited', ip).out = "next"
           /\ RecordOf(rateLimitStore', ip).count = 1
           /\ RecordOf(rateLimitStore', ip).resetTime = now + limiter.windowMs

\* C33: rateLimiter never blocks an IP for good: for an IP whose requests are
\* rejected with 429, the first request arriving strictly after the reset time
\* of the window is passed on, sets the count of the IP to 1 and starts a new
\* window of windowMs.
C33_WindowRestarts == [][ResetAfterWindow]_vars

\* C33 witness: the request before was answered 429, and this one, after the
\* reset time, was passed on and started a window with the count 1
C33_Witness ==
    \E ip \in Ips :
        /\ AnswerOf(limited, ip).before = "429"
        /\ AnswerOf(limited, ip).out = "next"
        /\ RecordOf(rateLimitStore, ip).count = 1
        /\ RecordOf(rateLimitStore, ip).resetTime = AnswerOf(limited, ip).at + limiter.windowMs
        /\ \E other \in Ips \ {ip} : AnswerOf(limited, other).out = "429"

\* the log is the last MaxLogs responses sent, in the order they were sent
LogIsLastSent ==
    LET n == Len(sent)
        k == IF n > MaxLogs THEN MaxLogs ELSE n
    IN /\ Len(auditLogs) = k
       /\ \A i \in 1..k : auditLogs[i] = sent[n - k + i]

\* every response is sent once
SentOnce == Cardinality({sent[i] : i \in DOMAIN sent}) = Len(sent)

\* C34: the audit log keeps the last 1000 entries only: it never holds more
\* than 1000, its entries are in the order the responses were sent, the
\* oldest entry is the one dropped when the bound is exceeded, and each
\* response sent through res.send is logged exactly once.
C34_LastThousand ==
    /\ Len(auditLogs) <= 1000
    /\ LogIsLastSent
    /\ SentOnce

\* C34 witness: more than 1000 responses were sent, the log holds the last
\* 1000 of them, and a response was sent before that of an earlier request
C34_Witness ==
    /\ Len(sent) > MaxLogs
    /\ Len(auditLogs) = MaxLogs
    /\ auditLogs[1] = sent[Len(sent) - MaxLogs + 1]
    /\ \E i \in 1..(Len(auditLogs) - 1) : auditLogs[i] > auditLogs[i + 1]
====
